---------------------------- MODULE Spec2Model ----------------------------
(* A model of the tutorial's two functions, generate_post and               *)
(* send_feedback_to_phoenix (Tutorial_notebook.ipynb, cell 3), together     *)
(* with the parts of their collaborators that they drive: the tracer's      *)
(* spans, the completion endpoint and the annotation endpoint.              *)
(*                                                                          *)
(* Python values that may be None or a string are tagged records, so that   *)
(* None, the empty string and the string "None" stay three different        *)
(* values.  A 64-bit span identifier is a tuple of four 16-bit limbs, most  *)
(* significant first, because TLC's integers are 32 bits wide.                *)
(* The two glyphs of the source are written by their code points.           *)
EXTENDS Integers, Sequences, FiniteSets, TLC

VARIABLES
    pc,       \* pc[t]: where thread t stands in the function it is running
    frame,    \* frame[t]: the arguments, locals and result of that call
    spans,    \* the spans the tracer has opened in this process, in order
    current,  \* current[t]: the span that is current in t's context, or 0
    returned  \* what the caller holds of the generate_post results it took

vars == <<pc, frame, spans, current, returned>>

-----------------------------------------------------------------------------
(* Bounds of the model *)

NumThreads == 2
MaxSpans == 2

Threads == 1 .. NumThreads
MainThread == 1

-----------------------------------------------------------------------------
(* Python values *)

None == [type |-> "NoneType"]
Str(s) == [type |-> "str", val |-> s]
Unbound == [type |-> "unbound"]

IsStr(v) == v.type = "str"

\* bool(v), as `if not span_id` evaluates it
Truthy(v) == IsStr(v) /\ v.val # ""

\* str(v) and the {v} of an f-string
PyStr(v) == IF IsStr(v) THEN v.val ELSE "None"

StartsWith(s, p) == Len(s) >= Len(p) /\ SubSeq(s, 1, Len(p)) = p

-----------------------------------------------------------------------------
(* format(span_context.span_id, '016x') *)

HexDigits == "0123456789abcdef"

HexDigit(d) == SubSeq(HexDigits, d + 1, d + 1)

\* the four nibbles of one 16-bit limb, most significant first
LimbNibbles(l) == << l \div 4096, (l \div 256) % 16, (l \div 16) % 16, l % 16 >>

\* the nibbles of an identifier, most significant first
Nibbles(n) ==
    LimbNibbles(n[1]) \o LimbNibbles(n[2]) \o LimbNibbles(n[3]) \o LimbNibbles(n[4])

RECURSIVE StripZeros(_)
\* an integer's digits carry no leading zero; zero itself is the one digit 0
StripZeros(ds) ==
    IF Len(ds) > 1 /\ Head(ds) = 0 THEN StripZeros(Tail(ds)) ELSE ds

RECURSIVE DigitString(_)
DigitString(ds) ==
    IF ds = << >> THEN "" ELSE HexDigit(Head(ds)) \o DigitString(Tail(ds))

\* format(n, 'x'): the lowercase hex digits of n
FormatX(n) == DigitString(StripZeros(Nibbles(n)))

RECURSIVE PadLeft(_, _, _)
\* a fill character and a minimum width: shorter strings are filled on the left
PadLeft(s, fill, width) ==
    IF Len(s) >= width THEN s ELSE PadLeft(fill \o s, fill, width)

IdWidth == 16

\* format(n, ' 16x'): the digits padded with spaces, the slip of a lost '0'
FormatSpacePadded(n) == PadLeft(FormatX(n), " ", IdWidth)

\* format(n, '016x')
Format016x(n) == PadLeft(FormatX(n), "0", IdWidth)

\* the value of one lowercase hex digit, or -1 for any other character
RECURSIVE DigitValueFrom(_, _)
DigitValueFrom(c, d) ==
    IF d > 15 THEN -1
    ELSE IF HexDigit(d) = c THEN d ELSE DigitValueFrom(c, d + 1)

DigitValue(c) == DigitValueFrom(c, 0)

IsLowerHex(s) ==
    \A i \in 1 .. Len(s) : DigitValue(SubSeq(s, i, i)) >= 0

\* int(s, 16) of a 16-digit string, as limbs: the inverse the claims read
\* an identifier back with
ParseHex16(s) ==
    [ k \in 1 .. 4 |->
        LET d(i) == DigitValue(SubSeq(s, 4 * (k - 1) + i, 4 * (k - 1) + i))
        IN  d(1) * 4096 + d(2) * 256 + d(3) * 16 + d(4) ]

-----------------------------------------------------------------------------
(* The tracer: spans and their attributes *)

OPENINFERENCE_SPAN_KIND == "openinference.span.kind"
INPUT_VALUE == "input.value"
OUTPUT_VALUE == "output.value"

\* the identifiers the tracer's generator may draw (64 random bits each)
SpanIdPool ==
    { << 10207, 8038, 17107, 16742 >>,     \* 0x27df1f6642d34166
      << 0, 0, 0, 171 >>,                  \* 0x00000000000000ab
      << 65535, 65535, 65535, 65535 >>,    \* 0xffffffffffffffff
      << 0, 43981, 0, 1 >> }               \* 0x0000abcd00000001

UsedSpanIds == { spans[i].span_id : i \in 1 .. Len(spans) }

\* span.set_attribute(key, value): a value that is no attribute value (None)
\* is dropped with a warning, any other replaces what the key held
SetAttribute(attributes, key, value) ==
    IF ~IsStr(value) THEN attributes
    ELSE [ k \in DOMAIN attributes \cup {key} |->
             IF k = key THEN value ELSE attributes[k] ]

HasAttribute(s, key) == key \in DOMAIN spans[s].attributes

-----------------------------------------------------------------------------
(* Inputs and the outcomes of the two endpoints *)

Descriptions == { Str(""), Str("Blue ceramic mug, 12oz, dishwasher safe.") }

PROMPT_HEAD ==
    "\nYou are an expert social media content creator.\nYour task is to create a different promotion message with the following \nProduct Description :\n------\n"
PROMPT_TAIL ==
    "\n------\nThe output promotion message should have the following :\nTitle: a powerful, short message that dipict what this product is about \nMessage: be creative for the promotion message, but make it short and ready for social media feeds, under 100 words.\nTags: the hash tag human will nomally use in social media\n\nGive me the final post, do not have \"Title:\", \"Message:\", \"Tags:\" in it.\nBegin!\n"

\* PROMPT_TEMPLATE.format(product_desc=description)
PromptFor(description) == PROMPT_HEAD \o PyStr(description) \o PROMPT_TAIL

CompletionRequest(description) ==
    [ model |-> "gpt-4o",
      messages |->
        << [role |-> "system", content |-> "You are a helpful social media content creator."],
           [role |-> "user", content |-> PromptFor(description)] >> ]

\* what client.chat.completions.create may do: raise, or answer with a list
\* of choices, each holding a message content that is a string or None
CompletionOutcomes ==
    { [kind |-> "raise", exc |-> "Connection error."],
      [kind |-> "raise", exc |-> ""],
      [kind |-> "response", choices |-> << >>],
      [kind |-> "response", choices |-> << None >>],
      [kind |-> "response", choices |-> << Str("") >>],
      [kind |-> "response", choices |-> << Str("Great mug! #mugs") >>],
      [kind |-> "response", choices |-> << Str("Great mug! #mugs"), Str("Mug time!") >>] }

\* what the threads of SpecThreads pass and draw
ThreadDescriptions == { Str("Blue ceramic mug, 12oz, dishwasher safe.") }

FewCompletionOutcomes ==
    { [kind |-> "raise", exc |-> "Connection error."],
      [kind |-> "response", choices |-> << Str("Great mug! #mugs") >>] }

\* what the round trip of SpecRoundTrip passes and draws: the two polarities
\* of the notebook, and one completion outcome of each kind
RoundTripFeedbackTypes == { Str("like"), Str("dislike") }

RoundTripCompletionOutcomes ==
    { [kind |-> "raise", exc |-> "Connection error."],
      [kind |-> "response", choices |-> << >>],
      [kind |-> "response", choices |-> << Str("") >>],
      [kind |-> "response", choices |-> << Str("Great mug! #mugs") >>] }

SpanIdArguments == { None, Str(""), Str("abc123abc123abcd"), Str("27df1f6642d34166") }
FeedbackTypes == { Str("like"), Str("dislike"), Str("Like"), Str(""), None }

HTTP_OK == 200
StatusCodes == { 200, 201, 204, 404, 500 }

\* what httpx.Client() may do
ClientOutcomes == { "created", "raise" }

\* what client.post may do: an answer with a status code, or an exception
PostOutcomes ==
    { [kind |-> "status", status_code |-> c] : c \in StatusCodes }
    \cup { [kind |-> "raise", exc |-> "timed out"],
           [kind |-> "raise", exc |-> "All connection attempts failed"] }

ANNOTATIONS_URL == "http://localhost:6006/v1/span_annotations?sync=false"
THUMBS_UP == "U+1F44D"
THUMBS_DOWN == "U+1F44E"

-----------------------------------------------------------------------------
(* The state *)

NoResult == [kind |-> "none"]
Returned(v) == [kind |-> "return", value |-> v]
Raised(e) == [kind |-> "raise", exc |-> e]

EmptyFrame ==
    [ fn |-> "none",
      \* generate_post
      description |-> Unbound, span |-> 0, response |-> Unbound,
      output_content |-> Unbound, e |-> Unbound, completions |-> << >>,
      \* send_feedback_to_phoenix
      span_id |-> Unbound, feedback_type |-> Unbound, clients |-> 0,
      label |-> Unbound, score |-> Unbound, annotation_payload |-> Unbound,
      posts |-> << >>,
      \* how the call ended
      result |-> NoResult ]

Init ==
    /\ pc = [t \in Threads |-> "idle"]
    /\ frame = [t \in Threads |-> EmptyFrame]
    /\ spans = << >>
    /\ current = [t \in Threads |-> 0]
    /\ returned = {}

-----------------------------------------------------------------------------
(* generate_post *)

\* a request leaves the process: the log of the call that issued it grows
IssueWithRetry(log, request) == Append(Append(log, request), request)

Issue(log, request) == Append(log, request)

\* the most recently opened span of the process, whoever opened it
LastOpenedSpan(t) == Len(spans)

\* the local `span` that `with ... as span` bound in t's call
SpanOf(t) == frame[t].span

BareErrorText(e) == e

\* f"Error generating post: {str(e)}"
ErrorText(e) == "Error generating post: " \o e

\* leaving the with block: the span ends and t's context gets back the span
\* that was current before (none: the calls of this program are not nested)
EndSpan(s) == [spans EXCEPT ![s].ended = TRUE]

\* an except clause that hands out the identifier of the failed span
GpExceptKeepsId(t, exc, fr) ==
    /\ spans' = EndSpan(SpanOf(t))
    /\ current' = [current EXCEPT ![t] = 0]
    /\ frame' = [frame EXCEPT ![t] =
          [fr EXCEPT !.e = Str(exc),
                     !.result = Returned([text |-> Str(ErrorText(exc)),
                                          span_id |-> Str(Format016x(spans[SpanOf(t)].span_id))])]]
    /\ pc' = [pc EXCEPT ![t] = "done"]
    /\ UNCHANGED returned

\* an exception inside the with block leaves it and reaches the except
\* clause, which returns the error text and no identifier
GpExcept(t, exc, fr) ==
    /\ spans' = EndSpan(SpanOf(t))
    /\ current' = [current EXCEPT ![t] = 0]
    /\ frame' = [frame EXCEPT ![t] =
          [fr EXCEPT !.e = Str(exc),
                     !.result = Returned([text |-> Str(ErrorText(exc)), span_id |-> None])]]
    /\ pc' = [pc EXCEPT ![t] = "done"]
    /\ UNCHANGED returned

OpeningCalls == { t \in Threads : pc[t] = "gp_start_span" }

\* the caller calls generate_post(description)
GpCall(t, descriptions) ==
    /\ pc[t] = "idle"
    /\ Len(spans) + Cardinality(OpeningCalls) < MaxSpans
    /\ \E d \in descriptions :
          frame' = [frame EXCEPT ![t] =
              [EmptyFrame EXCEPT !.fn = "generate_post", !.description = d]]
    /\ pc' = [pc EXCEPT ![t] = "gp_start_span"]
    /\ UNCHANGED <<spans, current, returned>>

\* with tracer.start_as_current_span("Social media post", attributes=...) as span
GpStartSpan(t) ==
    /\ pc[t] = "gp_start_span"
    /\ \E id \in SpanIdPool \ UsedSpanIds :
          spans' = Append(spans,
              [ span_id |-> id,
                name |-> "Social media post",
                attributes |-> [k \in {OPENINFERENCE_SPAN_KIND} |-> Str("CHAIN")],
                ended |-> FALSE ])
    /\ current' = [current EXCEPT ![t] = Len(spans) + 1]
    /\ frame' = [frame EXCEPT ![t].span = Len(spans) + 1]
    /\ pc' = [pc EXCEPT ![t] = "gp_set_input"]
    /\ UNCHANGED returned

\* span.set_attribute(SpanAttributes.INPUT_VALUE, description)
GpSetInput(t) ==
    /\ pc[t] = "gp_set_input"
    /\ spans' = [spans EXCEPT ![SpanOf(t)].attributes =
                    SetAttribute(@, INPUT_VALUE, frame[t].description)]
    /\ pc' = [pc EXCEPT ![t] = "gp_create"]
    /\ UNCHANGED <<frame, current, returned>>

\* response = client.chat.completions.create(model=..., messages=[...])
GpCreate(t, outcomes) ==
    /\ pc[t] = "gp_create"
    /\ \E o \in outcomes :
          LET fr == [frame[t] EXCEPT
                       !.completions = Issue(@, CompletionRequest(frame[t].description))]
          IN  IF o.kind = "raise"
              THEN GpExcept(t, o.exc, fr)
              ELSE /\ frame' = [frame EXCEPT ![t] = [fr EXCEPT !.response = o]]
                   /\ pc' = [pc EXCEPT ![t] = "gp_extract"]
                   /\ UNCHANGED <<spans, current, returned>>

\* output_content = response.choices[0].message.content
GpExtract(t) ==
    /\ pc[t] = "gp_extract"
    /\ IF frame[t].response.choices = << >>
       THEN GpExcept(t, "list index out of range", frame[t])
       ELSE /\ frame' = [frame EXCEPT ![t].output_content = frame[t].response.choices[1]]
            /\ pc' = [pc EXCEPT ![t] = "gp_set_output"]
            /\ UNCHANGED <<spans, current, returned>>

\* the step with its set_attribute line left out
GpSetOutputOmitted(t) ==
    /\ pc[t] = "gp_set_output"
    /\ pc' = [pc EXCEPT ![t] = "gp_return"]
    /\ UNCHANGED <<frame, spans, current, returned>>

\* span.set_attribute(SpanAttributes.OUTPUT_VALUE, output_content)
GpSetOutput(t) ==
    /\ pc[t] = "gp_set_output"
    /\ spans' = [spans EXCEPT ![SpanOf(t)].attributes =
                    SetAttribute(@, OUTPUT_VALUE, frame[t].output_content)]
    /\ pc' = [pc EXCEPT ![t] = "gp_return"]
    /\ UNCHANGED <<frame, current, returned>>

\* span_context = span.get_span_context()
\* span_id = format(span_context.span_id, '016x')
\* return output_content, span_id
GpReturn(t) ==
    /\ pc[t] = "gp_return"
    /\ LET span_id == Str(Format016x(spans[SpanOf(t)].span_id))
       IN  frame' = [frame EXCEPT
              ![t].span_id = span_id,
              ![t].result = Returned([text |-> frame[t].output_content, span_id |-> span_id])]
    /\ spans' = EndSpan(SpanOf(t))
    /\ current' = [current EXCEPT ![t] = 0]
    /\ pc' = [pc EXCEPT ![t] = "done"]
    /\ UNCHANGED returned

-----------------------------------------------------------------------------
(* send_feedback_to_phoenix *)

IsNotNone(v) == v # None

\* `if not span_id` is false: the call goes on
HasIdentifier(span_id) == Truthy(span_id)

LabelOfNotDislike(feedback_type) ==
    IF feedback_type # Str("dislike") THEN THUMBS_UP ELSE THUMBS_DOWN

\* label = THUMBS_UP if feedback_type == "like" else THUMBS_DOWN
LabelOf(feedback_type) ==
    IF feedback_type = Str("like") THEN THUMBS_UP ELSE THUMBS_DOWN

\* score = 1 if feedback_type == "like" else 0
ScoreOf(feedback_type) == IF feedback_type = Str("like") THEN 1 ELSE 0

\* the payload of the README, which has neither explanation nor metadata
ReadmePayload(span_id, label, score, feedback_type) ==
    [ data |-> <<
        [ span_id |-> span_id,
          name |-> "user feedback",
          annotator_kind |-> "HUMAN",
          result |-> [ label |-> label, score |-> score ] ] >> ]

\* annotation_payload = {"data": [{...}]}; the empty metadata object is the
\* empty set of (key, value) pairs
AnnotationPayload(span_id, label, score, feedback_type) ==
    [ data |-> <<
        [ span_id |-> span_id,
          name |-> "user feedback",
          annotator_kind |-> "HUMAN",
          result |-> [ label |-> label,
                       score |-> score,
                       explanation |-> "User provided " \o PyStr(feedback_type) \o " feedback" ],
          metadata |-> {} ] >> ]

IsSuccessStatus(status_code) == status_code >= 200 /\ status_code < 300

\* response.status_code == 200
StatusIsOk(status_code) == status_code = HTTP_OK

\* the caller calls send_feedback_to_phoenix(span_id, feedback_type);
\* if not span_id: return False
SfCall(t, identifiers, types) ==
    /\ pc[t] = "idle"
    /\ \E id \in identifiers, ft \in types :
          LET fr == [EmptyFrame EXCEPT !.fn = "send_feedback_to_phoenix",
                                       !.span_id = id, !.feedback_type = ft]
          IN  IF HasIdentifier(id)
              THEN /\ frame' = [frame EXCEPT ![t] = fr]
                   /\ pc' = [pc EXCEPT ![t] = "sf_client"]
              ELSE /\ frame' = [frame EXCEPT ![t] = [fr EXCEPT !.result = Returned(FALSE)]]
                   /\ pc' = [pc EXCEPT ![t] = "done"]
    /\ UNCHANGED <<spans, current, returned>>

\* client = httpx.Client(), then label and score; the three lines stand
\* before the try, so what the constructor raises leaves the function
SfClient(t) ==
    /\ pc[t] = "sf_client"
    /\ \E o \in ClientOutcomes :
          IF o = "raise"
          THEN /\ frame' = [frame EXCEPT ![t].result = Raised("httpx.Client()")]
               /\ pc' = [pc EXCEPT ![t] = "done"]
          ELSE /\ frame' = [frame EXCEPT
                     ![t].clients = @ + 1,
                     ![t].label = LabelOf(frame[t].feedback_type),
                     ![t].score = ScoreOf(frame[t].feedback_type)]
               /\ pc' = [pc EXCEPT ![t] = "sf_post"]
    /\ UNCHANGED <<spans, current, returned>>

\* the try block: the payload is built, client.post sends it and the status
\* code decides; except Exception: return False
SfPost(t) ==
    /\ pc[t] = "sf_post"
    /\ \E o \in PostOutcomes :
          LET payload == AnnotationPayload(frame[t].span_id, frame[t].label,
                                           frame[t].score, frame[t].feedback_type)
              fr == [frame[t] EXCEPT
                       !.annotation_payload = payload,
                       !.posts = Issue(@, [url |-> ANNOTATIONS_URL, json |-> payload])]
          IN  IF o.kind = "raise"
              THEN frame' = [frame EXCEPT ![t] = [fr EXCEPT !.result = Returned(FALSE)]]
              ELSE frame' = [frame EXCEPT ![t] =
                      [fr EXCEPT !.response = o,
                                 !.result = Returned(StatusIsOk(o.status_code))]]
    /\ pc' = [pc EXCEPT ![t] = "done"]
    /\ UNCHANGED <<spans, current, returned>>

-----------------------------------------------------------------------------
(* The caller *)

\* generated_post, span_id = generate_post(...): of a result the caller
\* keeps the identifier, and whether the call caught an exception
Taken(fr) ==
    [ span_id |-> fr.result.value.span_id, succeeded |-> fr.e = Unbound ]

\* the identifiers a caller can pass on that keeps to what generate_post
\* gave it
ReturnedIdentifiers == { r.span_id : r \in returned }

\* the caller has the result (or the exception) and the frame is gone
Return(t) ==
    /\ pc[t] = "done"
    /\ pc' = [pc EXCEPT ![t] = "idle"]
    /\ frame' = [frame EXCEPT ![t] = EmptyFrame]
    /\ returned' = IF frame[t].fn = "generate_post"
                   THEN returned \cup {Taken(frame[t])}
                   ELSE returned
    /\ UNCHANGED <<spans, current>>

\* the program as the notebook runs it: one thread, one call at a time
Next ==
    \/ GpCall(MainThread, Descriptions)
    \/ GpStartSpan(MainThread)
    \/ GpSetInput(MainThread)
    \/ GpCreate(MainThread, CompletionOutcomes)
    \/ GpExtract(MainThread)
    \/ GpSetOutput(MainThread)
    \/ GpReturn(MainThread)
    \/ SfCall(MainThread, SpanIdArguments, FeedbackTypes)
    \/ SfClient(MainThread)
    \/ SfPost(MainThread)
    \/ Return(MainThread)

Spec == Init /\ [][Next]_vars

\* generate_post called from several threads at once
NextThreads ==
    \E t \in Threads :
        \/ GpCall(t, ThreadDescriptions)
        \/ GpStartSpan(t)
        \/ GpSetInput(t)
        \/ GpCreate(t, FewCompletionOutcomes)
        \/ GpExtract(t)
        \/ GpSetOutput(t)
        \/ GpReturn(t)
        \/ Return(t)

SpecThreads == Init /\ [][NextThreads]_vars

\* the notebook's round trip: the relay is given only identifiers that
\* earlier generate_post calls returned
NextRoundTrip ==
    \/ GpCall(MainThread, ThreadDescriptions)
    \/ GpStartSpan(MainThread)
    \/ GpSetInput(MainThread)
    \/ GpCreate(MainThread, RoundTripCompletionOutcomes)
    \/ GpExtract(MainThread)
    \/ GpSetOutput(MainThread)
    \/ GpReturn(MainThread)
    \/ SfCall(MainThread, ReturnedIdentifiers, RoundTripFeedbackTypes)
    \/ SfClient(MainThread)
    \/ SfPost(MainThread)
    \/ Return(MainThread)

SpecRoundTrip == Init /\ [][NextRoundTrip]_vars

-----------------------------------------------------------------------------
(* What the claims speak of *)

InRelay(t) == frame[t].fn = "send_feedback_to_phoenix"
InGenerate(t) == frame[t].fn = "generate_post"
RelayDone(t) == pc[t] = "done" /\ InRelay(t)
GenerateDone(t) == pc[t] = "done" /\ InGenerate(t)

IsResponse(r) == "status_code" \in DOMAIN r

\* the annotation endpoint answered the POST of t's call with 200
Answered200(t) ==
    /\ frame[t].posts # << >>
    /\ IsResponse(frame[t].response)
    /\ frame[t].response.status_code = 200

\* the completion call of t's call raised: a request went out and bound
\* no response
CompletionRaised(t) ==
    frame[t].completions # << >> /\ frame[t].response = Unbound

\* t's call ran to its return statement: no exception was caught
GenerateSucceeded(t) == GenerateDone(t) /\ frame[t].e = Unbound

-----------------------------------------------------------------------------
(* C1: for every polarity, a relay call whose identifier is None or the    *)
(* empty string returns False, and in that call no HTTP client has been    *)
(* created and no POST has been sent.                                      *)
C1_AbsentIdentifierNoRequest ==
    \A t \in Threads :
        (InRelay(t) /\ frame[t].span_id \in {None, Str("")}) =>
            /\ pc[t] = "done"
            /\ frame[t].result = Returned(FALSE)
            /\ frame[t].clients = 0
            /\ frame[t].posts = << >>

C1_Witness ==
    \E t \in Threads :
        /\ RelayDone(t)
        /\ frame[t].span_id = Str("")
        /\ frame[t].feedback_type = Str("like")
        /\ frame[t].result = Returned(FALSE)

(* C2: for a non-empty identifier the relay returns True exactly when the  *)
(* endpoint answered the POST with status 200; a POST answered with any    *)
(* other status, or ended by a timeout or a connection error, returns      *)
(* False.                                                                  *)
C2_TrueIffStatus200 ==
    \A t \in Threads :
        (RelayDone(t) /\ Truthy(frame[t].span_id)) =>
            /\ (frame[t].result = Returned(TRUE)) <=> Answered200(t)
            /\ (frame[t].posts # << >> /\ ~Answered200(t)) =>
                   frame[t].result = Returned(FALSE)

C2_Witness ==
    \E t \in Threads :
        /\ RelayDone(t)
        /\ Answered200(t)
        /\ frame[t].result = Returned(TRUE)

(* C3: the literal "like" gives the thumbs-up label with score 1, every    *)
(* other polarity (also "dislike", "Like", "" and None) the thumbs-down    *)
(* label with score 0; in every payload sent the score is 1 exactly when   *)
(* the label is thumbs-up.                                                 *)
C3_LabelScoreMapping ==
    \A t \in Threads :
        (InRelay(t) /\ frame[t].clients > 0) =>
            /\ (frame[t].feedback_type = Str("like")) =>
                   (frame[t].label = THUMBS_UP /\ frame[t].score = 1)
            /\ (frame[t].feedback_type # Str("like")) =>
                   (frame[t].label = THUMBS_DOWN /\ frame[t].score = 0)
            /\ \A i \in 1 .. Len(frame[t].posts) :
                   LET r == frame[t].posts[i].json.data[1].result
                   IN  /\ r.label \in {THUMBS_UP, THUMBS_DOWN}
                       /\ r.score \in {0, 1}
                       /\ (r.score = 1) <=> (r.label = THUMBS_UP)
                       /\ (r.score = 1) <=> (frame[t].feedback_type = Str("like"))

C3_Witness ==
    \E t \in Threads :
        /\ RelayDone(t)
        /\ frame[t].feedback_type = Str("Like")
        /\ frame[t].posts # << >>
        /\ frame[t].posts[1].json.data[1].result.label = THUMBS_DOWN
        /\ frame[t].posts[1].json.data[1].result.score = 0

(* C4: generate_post never re-raises; when its completion call raised, the *)
(* text it returns begins with "Error generating post:" and the identifier *)
(* is None; and the identifier is None only when an exception was caught:  *)
(* a call that ran without one returns a present identifier.               *)
C4_FailureIsReturnedNotRaised ==
    \A t \in Threads :
        GenerateDone(t) =>
            /\ frame[t].result.kind = "return"
            /\ CompletionRaised(t) =>
                   /\ IsStr(frame[t].result.value.text)
                   /\ StartsWith(frame[t].result.value.text.val, "Error generating post:")
                   /\ frame[t].result.value.span_id = None
            /\ (frame[t].result.value.span_id = None) <=> (frame[t].e # Unbound)
            /\ (frame[t].e = Unbound) => Truthy(frame[t].result.value.span_id)

C4_Witness ==
    \E t \in Threads :
        /\ GenerateDone(t)
        /\ CompletionRaised(t)
        /\ frame[t].e = Str("Connection error.")
        /\ frame[t].result.value.span_id = None

(* C5, as stated: for a non-empty description, a call that raised nothing  *)
(* returns a non-empty text, equal to the first choice's message content,  *)
(* and an identifier of exactly 16 lowercase hex digits that encodes the   *)
(* identifier of the span the call opened.                                 *)
WellFormedIdentifier(t) ==
    LET id == frame[t].result.value.span_id
    IN  /\ IsStr(id)
        /\ Len(id.val) = 16
        /\ IsLowerHex(id.val)
        /\ ParseHex16(id.val) = spans[frame[t].span].span_id

C5_AsStated ==
    \A t \in Threads :
        (GenerateSucceeded(t) /\ Truthy(frame[t].description)) =>
            /\ Truthy(frame[t].result.value.text)
            /\ frame[t].result.value.text = frame[t].response.choices[1]
            /\ WellFormedIdentifier(t)

(* C5, amended: for a non-empty description, a call that raised nothing    *)
(* returns the first choice's message content unchanged (so the text is    *)
(* non-empty exactly when that content is a non-empty string: an empty     *)
(* string or None comes back as it is), and an identifier of exactly 16    *)
(* lowercase hex digits, zero-padded on the left, that encodes the 64-bit  *)
(* identifier of the span the call opened.                                 *)
C5_TextIsFirstChoiceAndIdIs16Hex ==
    \A t \in Threads :
        (GenerateSucceeded(t) /\ Truthy(frame[t].description)) =>
            /\ frame[t].result.value.text = frame[t].response.choices[1]
            /\ Truthy(frame[t].result.value.text) <=> Truthy(frame[t].response.choices[1])
            /\ WellFormedIdentifier(t)

C5_Witness ==
    \E t \in Threads :
        /\ GenerateSucceeded(t)
        /\ Truthy(frame[t].description)
        /\ Len(frame[t].response.choices) = 2
        /\ frame[t].result.value.text = Str("Great mug! #mugs")
        /\ frame[t].result.value.span_id = Str("00000000000000ab")

(* C6: every POST of the relay goes to /v1/span_annotations?sync=false     *)
(* and carries a payload whose data list holds exactly one record: the     *)
(* identifier as passed, the name "user feedback", the annotator kind      *)
(* "HUMAN", a result of label, score and the explanation "User provided    *)
(* <feedback_type> feedback" built from the polarity as passed, and an     *)
(* empty metadata object.                                                  *)
PolarityText(ft) ==
    CASE ft = None -> "None"
      [] ft = Str("") -> ""
      [] ft = Str("like") -> "like"
      [] ft = Str("Like") -> "Like"
      [] ft = Str("dislike") -> "dislike"

C7_AlwaysReturnsBoolean ==
    \A t \in Threads :
        RelayDone(t) =>
            /\ frame[t].result.kind = "return"
            /\ frame[t].result.value \in BOOLEAN

RecordedInput(t) ==
    /\ frame[t].span # 0
    /\ HasAttribute(frame[t].span, INPUT_VALUE)
    /\ spans[frame[t].span].attributes[INPUT_VALUE] = frame[t].description

RecordedOutput(t) ==
    /\ frame[t].span # 0
    /\ HasAttribute(frame[t].span, OUTPUT_VALUE)
    /\ spans[frame[t].span].attributes[OUTPUT_VALUE] = frame[t].result.value.text

C10_AsStated ==
    \A t \in Threads :
        GenerateDone(t) => (RecordedInput(t) /\ RecordedOutput(t))

(* C10, amended: every generate_post call that raised nothing and returns  *)
(* a string has, when it returns, recorded on its span the input value     *)
(* (the description) and the output value (the text it returns); a call    *)
(* that caught an exception, or whose content is None, has recorded the    *)
(* input value and no output value, and the text it returns is recorded    *)
(* nowhere; in every call the input value is on the span in the state the  *)
(* completion request is issued from.                                      *)
C10_States ==
    \A t \in Threads :
        /\ GenerateDone(t) => RecordedInput(t)
        /\ (GenerateSucceeded(t) /\ IsStr(frame[t].result.value.text)) => RecordedOutput(t)
        /\ (GenerateDone(t) /\ ~(GenerateSucceeded(t) /\ IsStr(frame[t].result.value.text))) =>
               ~HasAttribute(frame[t].span, OUTPUT_VALUE)

C10_InputBeforeRequest ==
    \A t \in Threads :
        Len(frame'[t].completions) > Len(frame[t].completions) => RecordedInput(t)

\* C10, amended: the two attributes of a call that returns generated text,
\* the missing output value of any other call, and the input value recorded
\* before the completion request is issued
C10_AttributesOfSuccessfulCalls ==
    [](C10_States) /\ [][C10_InputBeforeRequest]_vars

C10_Witness ==
    \E t \in Threads :
        /\ GenerateSucceeded(t)
        /\ frame[t].result.value.text = Str("Great mug! #mugs")
        /\ RecordedInput(t)
        /\ RecordedOutput(t)

(* C8: when generate_post runs in several threads at once, under every     *)
(* interleaving each call has a span of its own and returns the identifier *)
(* of that span, never that of a span another call opened; and a step of   *)
(* one call leaves alone the frame, the context and the span of every      *)
(* other call, and every span that has ended.                              *)
C8_States ==
    \A t \in Threads :
        /\ \A u \in Threads \ {t} :
               frame[t].span # 0 => frame[u].span # frame[t].span
        /\ (frame[t].span # 0 /\ pc[t] # "done") => current[t] = frame[t].span
        /\ GenerateSucceeded(t) =>
               /\ WellFormedIdentifier(t)
               /\ \A j \in (1 .. Len(spans)) \ {frame[t].span} :
                      ParseHex16(frame[t].result.value.span_id.val) # spans[j].span_id

C8_NoInterference ==
    /\ \A t \in Threads :
          pc'[t] = pc[t] =>
              /\ frame'[t] = frame[t]
              /\ current'[t] = current[t]
              /\ frame[t].span # 0 => spans'[frame[t].span] = spans[frame[t].span]
    /\ \A j \in 1 .. Len(spans) : spans[j].ended => spans'[j] = spans[j]

\* C8: concurrent generate_post calls each return the identifier of their
\* own span, and no step of one call changes what belongs to another
C8_EachCallItsOwnSpan ==
    [](C8_States) /\ [][C8_NoInterference]_vars

C8_Witness ==
    /\ GenerateSucceeded(1)
    /\ frame[1].span = 2
    /\ frame[2].span = 1
    /\ pc[2] = "gp_set_output"
    /\ ~spans[1].ended
    /\ frame[1].result.value.span_id.val = Format016x(spans[2].span_id)

(* C11: when the relay is given only identifiers that earlier              *)
(* generate_post calls returned, every POST sent carries the identifier of *)
(* a generation that succeeded, and that identifier names a span the       *)
(* tracer opened; a failed generation returned None, and a relay call      *)
(* given the identifier of a failed generation creates no client, sends no *)
(* POST and returns False.                                                 *)
FromFailedGeneration(id) ==
    \E r \in returned : ~r.succeeded /\ r.span_id = id

FromSucceededGeneration(id) ==
    \E r \in returned : r.succeeded /\ r.span_id = id

C11_PostsCarrySucceededIdentifiers ==
    /\ \A r \in returned : ~r.succeeded => r.span_id = None
    /\ \A t \in Threads :
          /\ InRelay(t) =>
                 (FromFailedGeneration(frame[t].span_id)
                  \/ FromSucceededGeneration(frame[t].span_id))
          /\ \A i \in 1 .. Len(frame[t].posts) :
                 LET id == frame[t].posts[i].json.data[1].span_id
                 IN  /\ FromSucceededGeneration(id)
                     /\ ~FromFailedGeneration(id)
                     /\ IsStr(id)
                     /\ Len(id.val) = 16
                     /\ ParseHex16(id.val) \in UsedSpanIds
          /\ (InRelay(t) /\ FromFailedGeneration(frame[t].span_id)) =>
                 /\ pc[t] = "done"
                 /\ frame[t].result = Returned(FALSE)
                 /\ frame[t].clients = 0
                 /\ frame[t].posts = << >>

C11_Witness ==
    \E t \in Threads :
        /\ RelayDone(t)
        /\ FromFailedGeneration(frame[t].span_id)
        /\ \E r \in returned : r.succeeded
        /\ frame[t].result = Returned(FALSE)
        /\ frame[t].posts = << >>

=============================================================================
